---- MODULE Spec2Model ----
(***************************************************************************)
(* The URL shortener of backend/server.js: the registry `urls`, the click  *)
(* ledger `clicks`, and the three async route handlers (POST /shorturls,   *)
(* GET /shorturls/:shortcode, GET /shorturls/:shortcode/stats).            *)
(*                                                                         *)
(* Node runs each handler on one thread: the code of a handler up to its   *)
(* first `await Log(...)` is one atomic step, the handler is then          *)
(* suspended until the audit-log call settles, and the code after the      *)
(* await (the response) is a second atomic step.                           *)
(*                                                                         *)
(* loggingMiddleware (LoggingMiddleware.js:19-22) starts an audit-log call  *)
(* for every request and does not wait for it; it touches no state and is  *)
(* left out.                                                               *)
(*                                                                         *)
(* Strings are sequences of one-character strings, so that the regular     *)
(* expression of isValidShortcode is computed character by character.      *)
(* A JSON value of a request body is a record [t |-> type, ...].           *)
(* Time is counted in clock ticks; every `new Date()` reads the clock,     *)
(* which never runs backwards: `now` is the value of the latest read.       *)
(***************************************************************************)
EXTENDS Integers, Sequences, FiniteSets, Bags, TLC

VARIABLES
    urls,      \* server.js:16  own properties of `urls`: code -> record
    clicks,    \* server.js:17  own properties of `clicks`: code -> event list
    now,       \* the value the latest `new Date()` read off the system clock
    pending,   \* bag of the handlers suspended at `await Log(...)`
    sink,      \* whether the audit-log service answers the calls made to it
    gen,       \* server.js:19-26  the loop of generateShortcode, when it is
               \* followed step by step (SpecGen); idle otherwise
    nreq,      \* number of requests received so far
    last,      \* the request handled by the latest handler step, and its outcome
    resp,      \* the latest response written to a client
    tally      \* history: per shortcode, counts of requests and answers

vars == <<urls, clicks, now, pending, sink, gen, nreq, last, resp, tally>>

----------------------------------------------------------------------------
\* Bounds of the model.

\* Requests received in one run.
MaxReq == 3
\* Last clock value.
MaxTime == 3
\* Clock ticks in one minute.
TicksPerMinute == 2
\* Ticks the clock may advance between two `new Date()` reads of one handler.
MaxDrift == 1
\* Candidates the random draw of generateShortcode ranges over.
GenChoices == 2

----------------------------------------------------------------------------
\* Strings and JSON values.

Undefined == [t |-> "undefined"]
Str(s) == [t |-> "string", s |-> s]
Num(n) == [t |-> "number", integer |-> TRUE, n |-> n]
\* A number with a fractional part (1.5): Number.isInteger is false for it.
Fraction == [t |-> "number", integer |-> FALSE, n |-> 1]

\* server.js:20  the 62 characters of `chars`, in order.
chars ==
    << "a","b","c","d","e","f","g","h","i","j","k","l","m",
       "n","o","p","q","r","s","t","u","v","w","x","y","z",
       "A","B","C","D","E","F","G","H","I","J","K","L","M",
       "N","O","P","Q","R","S","T","U","V","W","X","Y","Z",
       "0","1","2","3","4","5","6","7","8","9" >>

\* The character class [a-zA-Z0-9] of server.js:29.
Alnum == { chars[i] : i \in 1..Len(chars) }

\* Names every plain object inherits from Object.prototype: `urls[name]` and
\* `clicks[name]` evaluate to the inherited function although no own property
\* of that name exists (urls and clicks are created by `{}`, server.js:16-17).
ObjectPrototypeNames ==
    { <<"c","o","n","s","t","r","u","c","t","o","r">>,
      <<"t","o","S","t","r","i","n","g">>,
      <<"v","a","l","u","e","O","f">> }

\* JavaScript truthiness of a JSON value (`!url`, `if (shortcode)`).
Truthy(v) ==
    CASE v.t = "undefined" -> FALSE
      [] v.t = "string"    -> v.s # << >>
      [] v.t = "number"    -> v.n # 0

\* `obj[key]` is truthy: an own property (always an object or an array here)
\* or a property inherited from Object.prototype.
HasEntry(obj, key) == key \in DOMAIN obj \/ key \in ObjectPrototypeNames

\* valid-url's isUri, as far as the inputs need it: a URI starts with a scheme
\* (a letter, then letters and digits) followed by ":".
isUri(s) ==
    \E i \in 2..Len(s) :
        /\ s[i] = ":"
        /\ \A j \in 1..(i - 1) : s[j] \in Alnum
        /\ s[1] \notin {"0","1","2","3","4","5","6","7","8","9"}

\* server.js:28-30  /^[a-zA-Z0-9]{4,}$/.test(code)
isValidShortcode(code) ==
    /\ Len(code) >= 4
    /\ \A i \in 1..Len(code) : code[i] \in Alnum

\* server.js:23  one draw: six characters of `chars`. The draw is bounded to
\* GenChoices candidates, which differ in the last character.
Candidates ==
    { [i \in 1..6 |-> IF i = 6 THEN chars[k] ELSE chars[1]] : k \in 1..GenChoices }

\* generateShortcode without the collision test of its loop.
generateShortcodeNoRetry(u) == Candidates

\* server.js:19-26  the values generateShortcode can return: the loop redraws
\* while `urls[code]` is truthy, so it returns a candidate for which it is not.
generateShortcode(u) == { c \in Candidates : ~HasEntry(u, c) }

\* server.js:32-36  t is the clock read by `new Date()` at line 33.
getExpiryDate(t, minutes) == t + minutes * TicksPerMinute

\* Date.prototype.toISOString: the instant as a string.
toISOString(t) == [iso |-> t]

\* server.js:8 and 77  `${HOSTNAME}/shorturls/${shortCode}`
HOSTNAME ==
    << "h","t","t","p",":","/","/","l","o","c","a","l","h","o","s","t",":","4","0","0","0" >>
shortLinkOf(code) == HOSTNAME \o << "/","s","h","o","r","t","u","r","l","s","/" >> \o code

\* The shortcode a client reads off a short link: its last path segment
\* (App.tsx:102, data.shortLink.split('/').pop()).
RECURSIVE LastSegment(_)
LastSegment(s) ==
    IF s = << >> \/ s[Len(s)] = "/" THEN << >>
    ELSE LastSegment(SubSeq(s, 1, Len(s) - 1)) \o << s[Len(s)] >>

\* The expiry test with the boundary instant counted as expired.
IsExpiredAtBoundary(entry, t) == entry.expiry <= t

\* server.js:89  entry.expiry < new Date()
IsExpired(entry, t) == entry.expiry < t

----------------------------------------------------------------------------
\* Requests.

GoodUrl == << "h","t","t","p",":","/","/","a" >>
BadUrl  == << "n","o","-","u","r","l" >>

abcd        == << "a","b","c","d" >>
abc         == << "a","b","c" >>
ab_d        == << "a","b","-","d" >>
constructor == << "c","o","n","s","t","r","u","c","t","o","r" >>
\* App.tsx:89  the shortcode the client writes into every payload.
qxRMwq      == << "q","x","R","M","w","q" >>
aaaaaa      == << "a","a","a","a","a","a" >>

\* Bodies of POST /shorturls: <<url, validity, shortcode>>.
CreateInputs ==
    { <<u, Undefined, Undefined>> : u \in {Undefined, Str(BadUrl)} }
    \cup { <<Str(GoodUrl), v, s>> :
             v \in {Undefined, Num(1)},
             s \in {Undefined, Str(abcd), Str(constructor)} }
    \cup { <<Str(GoodUrl), Undefined, s>> : s \in {Str(<< >>), Str(abc), Str(ab_d)} }
    \cup { <<Str(GoodUrl), v, s>> :
             v \in {Num(0), Fraction}, s \in {Undefined, Str(abcd)} }

\* Shortcodes a request path can carry.
PathCodes == {abcd, aaaaaa, constructor}

\* Callers of GET /shorturls/:shortcode: the Referrer header and req.ip.
Callers ==
    { [referrer |-> Undefined, ip |-> "10.0.0.1"],
      [referrer |-> Str(<< "r" >>), ip |-> "10.0.0.2"] }

\* Every shortcode the history counts.
AllCodes == PathCodes \cup Candidates \cup {abc, ab_d, << >>, qxRMwq}

\* generateShortcode is not running.
Idle == [pc |-> "idle"]

\* No request handled, no response written yet.
NoRequest == [op |-> "none"]

\* The history of a shortcode before any request: Creates of it as a custom
\* shortcode handled (asked), answered 201 (won) and 409 (lost), Resolves
\* handled while its record existed unexpired (hits), and whether a Resolve of
\* it was answered Expired (gone); the body of the latest 200 a Stats of it
\* was answered with (shown, Null before the first) and the value of hits
\* when that answer was written (seen).
NoTally ==
    [asked |-> 0, won |-> 0, lost |-> 0, hits |-> 0, gone |-> FALSE,
     seen |-> 0, shown |-> [t |-> "null"]]

Init ==
    /\ urls = << >>
    /\ clicks = << >>
    /\ now = 0
    /\ pending = EmptyBag
    /\ sink = "answers"
    /\ gen = Idle
    /\ nreq = 0
    /\ last = NoRequest
    /\ resp = NoRequest
    /\ tally = [c \in AllCodes |-> NoTally]

\* obj[key] = value: the own property is added, or replaced when it exists.
Put(obj, key, value) ==
    [k \in DOMAIN obj \cup {key} |-> IF k = key THEN value ELSE obj[k]]

\* The string of a shortcode value, for the history.
CodeOf(shortcode) == IF shortcode.t = "string" THEN shortcode.s ELSE << >>

\* The request is one the history counts as a Create of a custom shortcode:
\* a valid URL, a supplied shortcode that matches ^[A-Za-z0-9]{4,}$, and a
\* validity that is absent or a positive integer (a Create with another
\* validity is answered InvalidValidity whatever its shortcode is).
AsksCustom(url, validity, shortcode) ==
    /\ url.t = "string" /\ isUri(url.s)
    /\ shortcode.t = "string"
    /\ Len(shortcode.s) >= 4
    /\ \A i \in 1..Len(shortcode.s) : shortcode.s[i] \in Alnum
    /\ validity = Undefined \/ (validity.integer /\ validity.n >= 1)

\* A handler suspended at `await Log(...)`, with the response it will write.
Handler(op, code, status, error, body) ==
    [op |-> op, code |-> code, status |-> status, error |-> error, body |-> body]

\* The handler suspends at its await.
Suspend(h) == pending' = pending (+) SetToBag({h})

\* server.js:38-80 up to the await: a Create that answers an error.
CreateFails(url, validity, shortcode, status, error) ==
    /\ Suspend(Handler("create", CodeOf(shortcode), status, error,
                       [error |-> error, custom |-> AsksCustom(url, validity, shortcode)]))
    /\ last' = [op |-> "create", url |-> url, validity |-> validity,
                shortcode |-> shortcode, status |-> status, error |-> error,
                code |-> CodeOf(shortcode)]
    /\ UNCHANGED <<urls, clicks, now>>

\* server.js:66-75: the insertion. t1 is the clock read in getExpiryDate
\* (line 33), t2 the clock read for createdAt (line 70).
CreateInserts(url, validity, shortcode, shortCode, duration, t1, t2) ==
    LET expiryDate == getExpiryDate(t1, duration) IN
    /\ urls' = Put(urls, shortCode,
                   [url |-> url.s, createdAt |-> t2, expiry |-> expiryDate,
                    clicks |-> 0])
    /\ clicks' = Put(clicks, shortCode, << >>)
    /\ now' = t2
    /\ Suspend(Handler("create", shortCode, 201, "none",
                       [shortLink |-> shortLinkOf(shortCode),
                        expiry |-> toISOString(expiryDate),
                        custom |-> AsksCustom(url, validity, shortcode)]))
    /\ last' = [op |-> "create", url |-> url, validity |-> validity,
                shortcode |-> shortcode, status |-> 201, error |-> "none",
                code |-> shortCode]

\* The record inserted before the validity is checked: a Create answered
\* InvalidValidity leaves a record behind.
CreateWithCodeInsertsFirst(url, validity, shortcode, shortCode) ==
    IF validity # Undefined /\ (~validity.integer \/ validity.n < 1)
    THEN /\ urls' = Put(urls, shortCode,
                        [url |-> url.s, createdAt |-> now,
                         expiry |-> getExpiryDate(now, 30), clicks |-> 0])
         /\ clicks' = Put(clicks, shortCode, << >>)
         /\ now' = now
         /\ Suspend(Handler("create", CodeOf(shortcode), 400, "InvalidValidity",
                            [error |-> "InvalidValidity",
                             custom |-> AsksCustom(url, validity, shortcode)]))
         /\ last' = [op |-> "create", url |-> url, validity |-> validity,
                     shortcode |-> shortcode, status |-> 400,
                     error |-> "InvalidValidity", code |-> CodeOf(shortcode)]
    ELSE \E t1 \in now..MaxTime, d \in 0..MaxDrift :
            /\ t1 + d <= MaxTime
            /\ CreateInserts(url, validity, shortcode, shortCode,
                             IF validity = Undefined THEN 30 ELSE validity.n,
                             t1, t1 + d)

\* server.js:58-65: the validity check, then the insertion.
CreateWithCode(url, validity, shortcode, shortCode) ==
    IF validity # Undefined /\ (~validity.integer \/ validity.n < 1)
    THEN CreateFails(url, validity, shortcode, 400, "InvalidValidity")
    ELSE \E t1 \in now..MaxTime, d \in 0..MaxDrift :
            /\ t1 + d <= MaxTime
            /\ CreateInserts(url, validity, shortcode, shortCode,
                             IF validity = Undefined THEN 30 ELSE validity.n,
                             t1, t1 + d)

\* server.js:38-75  POST /shorturls, up to the await of its audit-log call.
Create(url, validity, shortcode) ==
    /\ nreq < MaxReq
    /\ nreq' = nreq + 1
    /\ resp' = resp
    /\ UNCHANGED <<sink, gen>>
    /\ tally' = IF AsksCustom(url, validity, shortcode)
                THEN [tally EXCEPT ![shortcode.s].asked = @ + 1] ELSE tally
    /\ IF ~Truthy(url) \/ ~isUri(url.s)
       THEN CreateFails(url, validity, shortcode, 400, "InvalidUrl")
       ELSE IF Truthy(shortcode)
       THEN IF ~isValidShortcode(shortcode.s)
            THEN CreateFails(url, validity, shortcode, 400, "InvalidShortcode")
            ELSE IF HasEntry(urls, shortcode.s)
            THEN CreateFails(url, validity, shortcode, 409, "ShortcodeConflict")
            ELSE CreateWithCode(url, validity, shortcode, shortcode.s)
       ELSE \E code \in generateShortcode(urls) :
                CreateWithCode(url, validity, shortcode, code)

Null == [t |-> "null"]

\* What becomes of a handler whose promise rejects with a TypeError. Express 4
\* does not observe the promise, so the request is never answered; Express 5
\* passes the error to the error middleware of server.js:127-130, which awaits
\* its own audit-log call and answers 500. The repository does not pin the
\* version, so both are possible.
Thrown(code) ==
    { EmptyBag,
      SetToBag({ Handler("error", code, 500, "InternalServerError",
                         [error |-> "InternalServerError"]) }) }

\* The counter set to one instead of incremented: a second click is lost.
HitLost(entry) == [entry EXCEPT !.clicks = 1]

\* The increment of the counter applied twice.
HitTwice(entry) == [entry EXCEPT !.clicks = @ + 2]

\* The click counted and the expiry pushed back by a minute.
HitRenews(entry) == [entry EXCEPT !.clicks = @ + 1, !.expiry = @ + TicksPerMinute]

\* server.js:93  entry.clicks++
Hit(entry) == [entry EXCEPT !.clicks = @ + 1]

\* The click event without the caller's Referrer header.
ClickEventNoReferrer(t, caller) ==
    [timestamp |-> toISOString(t), referrer |-> Null, ip |-> caller.ip]

\* server.js:94-98  the click event; t is the clock read at line 95.
ClickEvent(t, caller) ==
    [timestamp |-> toISOString(t),
     referrer |-> IF Truthy(caller.referrer) THEN caller.referrer ELSE Null,
     ip |-> caller.ip]

\* The event put in front of the list.
PushFront(list, event) == << event >> \o list

\* server.js:94  clicks[shortcode].push(event)
Push(list, event) == Append(list, event)

\* The request is a Resolve of an existing record that is not expired
\* (the clock is not past the stored expiry): the history counts it.
CountsAsHit(code, t) == code \in DOMAIN urls /\ ~(t > urls[code].expiry)

\* A Stats of an existing record counted as a view of it.
ReadOnlyCounts(op, code, caller, status, error, body, t) ==
    /\ Suspend(Handler(op, code, status, error, body))
    /\ last' = [op |-> op, code |-> code, caller |-> caller,
                status |-> status, error |-> error, at |-> t]
    /\ now' = t
    /\ tally' = IF op = "resolve" /\ CountsAsHit(code, t)
                THEN [tally EXCEPT ![code].hits = @ + 1]
                ELSE IF op = "resolve" /\ status = 410
                THEN [tally EXCEPT ![code].gone = TRUE]
                ELSE tally
    /\ urls' = IF op = "stats" /\ code \in DOMAIN urls
               THEN [urls EXCEPT ![code] = Hit(@)] ELSE urls
    /\ clicks' = clicks

\* A Resolve or Stats that answers without touching registry or ledger;
\* t is the latest value read off the clock.
ReadOnly(op, code, caller, status, error, body, t) ==
    /\ Suspend(Handler(op, code, status, error, body))
    /\ last' = [op |-> op, code |-> code, caller |-> caller,
                status |-> status, error |-> error, at |-> t]
    /\ now' = t
    /\ tally' = IF op = "resolve" /\ CountsAsHit(code, t)
                THEN [tally EXCEPT ![code].hits = @ + 1]
                ELSE IF op = "resolve" /\ status = 410
                THEN [tally EXCEPT ![code].gone = TRUE]
                ELSE tally
    /\ UNCHANGED <<urls, clicks>>

\* server.js:93-99: the redirect is counted; t is the clock read at line 89,
\* t2 the one at line 95.
ResolveCounts(code, caller, t, t2) ==
    /\ urls' = [urls EXCEPT ![code] = Hit(@)]
    /\ clicks' = [clicks EXCEPT ![code] = Push(@, ClickEvent(t2, caller))]
    /\ now' = t2
    /\ Suspend(Handler("resolve", code, 302, "none", [location |-> urls[code].url]))
    /\ last' = [op |-> "resolve", code |-> code, caller |-> caller,
                status |-> 302, error |-> "none", at |-> t]
    /\ tally' = IF CountsAsHit(code, t)
                THEN [tally EXCEPT ![code].hits = @ + 1] ELSE tally

\* server.js:82-99  GET /shorturls/:shortcode, up to the await of its
\* audit-log call.
Resolve(code, caller) ==
    /\ nreq < MaxReq
    /\ nreq' = nreq + 1
    /\ resp' = resp
    /\ UNCHANGED <<sink, gen>>
    /\ IF ~HasEntry(urls, code)
       THEN ReadOnly("resolve", code, caller, 404, "NotFound",
                     [error |-> "NotFound"], now)
       ELSE IF code \notin DOMAIN urls
       THEN \* entry is the inherited function: entry.expiry is undefined, the
            \* comparison with the clock is false whatever the clock says,
            \* entry.clicks++ writes to the function, and
            \* clicks[shortcode].push is not a function: TypeError. The
            \* handler itself writes no response (status 0).
            /\ \E more \in Thrown(code) : pending' = pending (+) more
            /\ last' = [op |-> "resolve", code |-> code, caller |-> caller,
                        status |-> 0, error |-> "TypeError", at |-> now]
            /\ UNCHANGED <<urls, clicks, now, tally>>
       ELSE \E t \in now..MaxTime :
            IF IsExpired(urls[code], t)
            THEN ReadOnly("resolve", code, caller, 410, "Expired",
                          [error |-> "Expired"], t)
            ELSE \E d \in 0..MaxDrift :
                    /\ t + d <= MaxTime
                    /\ ResolveCounts(code, caller, t, t + d)

\* server.js:103-111  GET /shorturls/:shortcode/stats, up to the await of its
\* audit-log call. `entry` and `allClicks` are references to the live record
\* and list, which no code replaces, so the handler keeps the shortcode.
Stats(code) ==
    /\ nreq < MaxReq
    /\ nreq' = nreq + 1
    /\ resp' = resp
    /\ UNCHANGED <<sink, gen>>
    /\ IF ~HasEntry(urls, code)
       THEN ReadOnly("stats", code, Null, 404, "NotFound", [error |-> "NotFound"], now)
       ELSE ReadOnly("stats", code, Null, 200, "none", [entry |-> code], now)

\* A Stats body built from the record alone, with an empty click list.
StatsBodyNoClicks(code, entry, allClicks) ==
    [shortcode |-> code, originalUrl |-> entry.url,
     createdAt |-> toISOString(entry.createdAt),
     expiry |-> toISOString(entry.expiry),
     totalClicks |-> entry.clicks,
     clickDetails |-> << >>]

\* A Stats body whose click list starts at the second event.
StatsBodySkipsFirst(code, entry, allClicks) ==
    [shortcode |-> code, originalUrl |-> entry.url,
     createdAt |-> toISOString(entry.createdAt),
     expiry |-> toISOString(entry.expiry),
     totalClicks |-> entry.clicks,
     clickDetails |-> [i \in 1..(Len(allClicks) - 1) |->
                          [timestamp |-> allClicks[i + 1].timestamp,
                           referrer |-> allClicks[i + 1].referrer,
                           ip |-> allClicks[i + 1].ip]]]

\* server.js:112-123  the body of a Stats response. res.json writes the two
\* dates as JSON, that is by toISOString.
StatsBody(code, entry, allClicks) ==
    [shortcode |-> code, originalUrl |-> entry.url,
     createdAt |-> toISOString(entry.createdAt),
     expiry |-> toISOString(entry.expiry),
     totalClicks |-> entry.clicks,
     clickDetails |-> [i \in 1..Len(allClicks) |->
                          [timestamp |-> allClicks[i].timestamp,
                           referrer |-> allClicks[i].referrer,
                           ip |-> allClicks[i].ip]]]

\* Log without its catch: a failure of the sink reaches the handler, which
\* answers 500 instead of its response.
ResponseNeedsLog(h, logged) ==
    IF logged
    THEN [op |-> h.op, code |-> h.code, status |-> h.status,
          body |-> IF h.op = "stats" /\ h.status = 200
                   THEN StatsBody(h.code, urls[h.code], clicks[h.code])
                   ELSE h.body]
    ELSE [op |-> h.op, code |-> h.code, status |-> 500,
          body |-> [error |-> "InternalServerError"]]

\* The response a resumed handler writes. Log catches every error of the sink
\* (LoggingMiddleware.js:13-15), so `logged` is not read.
Response(h, logged) ==
    [op |-> h.op, code |-> h.code, status |-> h.status,
     body |-> IF h.op = "stats" /\ h.status = 200
              THEN StatsBody(h.code, urls[h.code], clicks[h.code])
              ELSE h.body]

\* The history of answers: to Creates of a custom shortcode, and to Stats.
Answered(h) ==
    IF h.op = "create" /\ h.body.custom
    THEN IF h.status = 201 THEN [tally EXCEPT ![h.code].won = @ + 1]
         ELSE IF h.status = 409 THEN [tally EXCEPT ![h.code].lost = @ + 1]
         ELSE tally
    ELSE IF h.op = "stats" /\ h.status = 200 /\ h.code \in DOMAIN urls
    THEN [tally EXCEPT ![h.code].seen = tally[h.code].hits,
                       ![h.code].shown = resp'.body]
    ELSE tally

\* LoggingMiddleware.js:5-16 and the code after each `await Log(...)` of
\* server.js: the audit-log call of handler h settles (logged: the sink took
\* the message; otherwise axios rejected and the catch swallowed it), the
\* handler resumes and writes its response. axios.post is called without a
\* timeout (line 8), so its promise settles only when the service answers or
\* the connection fails.
LogSettles(h, logged) ==
    /\ BagIn(h, pending)
    /\ sink = "answers"
    /\ IF h.op = "stats" /\ h.status = 200 /\ h.code \notin DOMAIN urls
       THEN \* allClicks is the inherited function: allClicks.map is not a
            \* function, TypeError while the body is built.
            /\ \E more \in Thrown(h.code) :
                   pending' = (pending (-) SetToBag({h})) (+) more
            /\ resp' = resp
       ELSE /\ pending' = pending (-) SetToBag({h})
            /\ resp' = Response(h, logged)
    /\ tally' = Answered(h)
    /\ UNCHANGED <<urls, clicks, now, sink, gen, nreq, last>>

\* The audit-log service (LoggingMiddleware.js:8, the host of the POST) keeps
\* its connections open and stops answering: the calls in flight and the
\* later ones do not settle.
SinkHangs ==
    /\ sink = "answers"
    /\ sink' = "hangs"
    /\ UNCHANGED <<urls, clicks, now, pending, gen, nreq, last, resp, tally>>

Next ==
    \/ \E in \in CreateInputs : Create(in[1], in[2], in[3])
    \/ \E code \in PathCodes, caller \in Callers : Resolve(code, caller)
    \/ \E code \in PathCodes : Stats(code)
    \/ \E h \in BagToSet(pending), logged \in BOOLEAN : LogSettles(h, logged)
    \/ SinkHangs

Spec == Init /\ [][Next]_vars

----------------------------------------------------------------------------
\* generateShortcode step by step: the Creates that reach line 56, with the
\* do-while loop of lines 21-24 taken one draw and one test at a time. The
\* loop is synchronous, so no other handler runs between its steps.

\* The Creates that call generateShortcode: a valid URL and a shortcode that
\* is absent or the empty string.
GenInputs ==
    { in \in CreateInputs :
        Truthy(in[1]) /\ isUri(in[1].s) /\ ~Truthy(in[3]) }

\* server.js:38-56  such a Create arrives and calls generateShortcode.
GenCall(url, validity, shortcode) ==
    /\ gen = Idle
    /\ nreq < MaxReq
    /\ nreq' = nreq + 1
    /\ gen' = [pc |-> "draw", url |-> url, validity |-> validity,
               shortcode |-> shortcode]
    /\ UNCHANGED <<urls, clicks, now, pending, sink, last, resp, tally>>

\* server.js:22-23  six characters are drawn: the candidate is c.
GenDraw(c) ==
    /\ gen.pc = "draw"
    /\ gen' = [pc |-> "test", url |-> gen.url, validity |-> gen.validity,
               shortcode |-> gen.shortcode, code |-> c]
    /\ UNCHANGED <<urls, clicks, now, pending, sink, nreq, last, resp, tally>>

\* The loop left after its first draw, whatever the candidate keys.
GenTestAccepts ==
    /\ gen.pc = "test"
    /\ gen' = [gen EXCEPT !.pc = "return"]
    /\ UNCHANGED <<urls, clicks, now, pending, sink, nreq, last, resp, tally>>

\* server.js:24  while (urls[code]): a candidate that keys a record is
\* dropped and the loop draws again; otherwise the loop ends.
GenTest ==
    /\ gen.pc = "test"
    /\ gen' = IF HasEntry(urls, gen.code)
              THEN [pc |-> "draw", url |-> gen.url, validity |-> gen.validity,
                    shortcode |-> gen.shortcode]
              ELSE [gen EXCEPT !.pc = "return"]
    /\ UNCHANGED <<urls, clicks, now, pending, sink, nreq, last, resp, tally>>

\* server.js:25 and 56-75: the candidate is returned and the handler goes on
\* with it, up to the await of its audit-log call.
GenReturn ==
    /\ gen.pc = "return"
    /\ gen' = Idle
    /\ CreateWithCode(gen.url, gen.validity, gen.shortcode, gen.code)
    /\ UNCHANGED <<sink, nreq, resp, tally>>

NextGen ==
    \/ \E in \in GenInputs : GenCall(in[1], in[2], in[3])
    \/ \E c \in Candidates : GenDraw(c)
    \/ GenTest
    \/ GenReturn

\* The draw is fair: a candidate that can be drawn again and again is drawn;
\* the test and the return are the next statements of running code.
SpecGen ==
    /\ Init /\ [][NextGen]_vars
    /\ \A c \in Candidates : SF_vars(GenDraw(c))
    /\ WF_vars(GenTest)
    /\ WF_vars(GenReturn)

----------------------------------------------------------------------------
\* The client: the form of Frontend/src/App.tsx and its submit handler.

\* The three text fields of the form.
Forms ==
    [url : {GoodUrl, BadUrl, << >>},
     customShortcode : {<< >>, abcd, abc},
     validity : {<< >>, << "1" >>, << "0" >>}]

Digits == << "0","1","2","3","4","5","6","7","8","9" >>
RECURSIVE DecimalValue(_)
DecimalValue(s) ==
    IF s = << >> THEN 0
    ELSE 10 * DecimalValue(SubSeq(s, 1, Len(s) - 1))
         + (CHOOSE d \in 0..9 : Digits[d + 1] = s[Len(s)])

\* Number(s) for a non-empty field: the value of a string of digits, NaN
\* (not an integer) for any other text.
NumberOf(s) ==
    IF \A i \in 1..Len(s) : \E d \in 1..10 : Digits[d] = s[i]
    THEN Num(DecimalValue(s))
    ELSE [t |-> "number", integer |-> FALSE, n |-> 0]

\* App.tsx:54-61  new URL(url) does not throw: as far as the fields need it,
\* the text starts with a scheme and ":".
validateUrl(s) == isUri(s)

\* App.tsx:63-81
validateInputs(form) ==
    /\ \E i \in 1..Len(form.url) : form.url[i] # " "
    /\ validateUrl(form.url)
    /\ form.customShortcode # << >> => isValidShortcode(form.customShortcode)
    /\ form.validity # << >> =>
          (NumberOf(form.validity).integer /\ NumberOf(form.validity).n >= 1)

\* App.tsx:88-91  the payload: shortcode is set to "qxRMwq" and replaced by
\* the field when the field is not empty.
payload(form) ==
    [url |-> Str(form.url),
     shortcode |-> IF form.customShortcode # << >>
                   THEN Str(form.customShortcode) ELSE Str(qxRMwq),
     validity |-> IF form.validity # << >>
                  THEN NumberOf(form.validity) ELSE Undefined]

\* App.tsx:83-97  the form is submitted: nothing is sent when the fields do
\* not validate, otherwise the payload is posted to /shorturls.
handleShortenUrl(form) ==
    IF ~validateInputs(form)
    THEN UNCHANGED vars
    ELSE Create(payload(form).url, payload(form).validity, payload(form).shortcode)

NextClient ==
    \/ \E form \in Forms : handleShortenUrl(form)
    \/ \E h \in BagToSet(pending), logged \in BOOLEAN : LogSettles(h, logged)

SpecClient == Init /\ [][NextClient]_vars

----------------------------------------------------------------------------
\* Vocabulary of the properties.

\* The handlers that suspended in this step, and those that resumed in it.
NewHandlers ==
    { h \in BagToSet(pending') : CopiesIn(h, pending') > CopiesIn(h, pending) }
Resumed ==
    { h \in BagToSet(pending) : CopiesIn(h, pending') < CopiesIn(h, pending) }

\* This step is the handling of a request (every handler counts its request).
Handles(op) == nreq' = nreq + 1 /\ last'.op = op

\* s is a prefix of t.
IsPrefix(s, t) == Len(s) <= Len(t) /\ SubSeq(t, 1, Len(s)) = s

\* code matches ^[A-Za-z0-9]{4,}$, written from the pattern.
MatchesPattern(code) ==
    /\ Len(code) >= 4
    /\ \A i \in 1..Len(code) :
          code[i] \in { chars[k] : k \in 1..62 }

\* The validity in minutes a Create request asks for.
MinutesOf(validity) == IF validity = Undefined THEN 30 ELSE validity.n

----------------------------------------------------------------------------
\* C1: in every reachable state, whatever handlers are suspended at their
\* audit-log call, each record's click counter equals the length of its
\* shortcode's click list.
C1_CounterMatchesLedger ==
    /\ DOMAIN urls = DOMAIN clicks
    /\ \A c \in DOMAIN urls : urls[c].clicks = Len(clicks[c])

\* A record that was clicked while a Create, a Resolve and a Stats handler are
\* all suspended.
C1_Witness ==
    /\ \E c \in DOMAIN urls : urls[c].clicks >= 1
    /\ \A op \in {"create", "resolve", "stats"} :
          \E h \in BagToSet(pending) : h.op = op

\* C2 (as claimed): when two or more Creates of one custom shortcode c (valid
\* URL, pattern-valid c, validity absent or a positive integer) were handled
\* and all of them have been answered, exactly one was answered 201 and every
\* other one 409.
C2_ExactlyOneWins ==
    \A c \in AllCodes :
        (/\ tally[c].asked >= 2
         /\ \A h \in BagToSet(pending) : ~(h.op = "create" /\ h.code = c))
        => (tally[c].won = 1 /\ tally[c].lost = tally[c].asked - 1)

\* C3: the Resolves handled against an existing, unexpired record are all
\* counted, each once: the counter and the ledger length equal their number.
C3_NoLostUpdate ==
    \A c \in DOMAIN urls :
        /\ urls[c].clicks = tally[c].hits
        /\ Len(clicks[c]) = tally[c].hits

\* Two Resolves of one shortcode counted while the handler of one of them is
\* still suspended.
C3_Witness ==
    \E c \in DOMAIN urls :
        /\ tally[c].hits >= 2
        /\ \E h \in BagToSet(pending) : h.op = "resolve" /\ h.code = c /\ h.status = 302

\* The state part of C4: the latest Resolve of an existing record was answered
\* Expired exactly if the clock it read was strictly past the stored expiry.
C4_ExpiredExactly ==
    (last.op = "resolve" /\ last.code \in DOMAIN urls)
        => ((last.status = 410) <=> (last.at > urls[last.code].expiry))
\* The step part of C4: a Resolve answered Expired changes neither registry nor
\* ledger, and once a Resolve of c was answered Expired (gone) no step changes
\* c's record or ledger and every Resolve of c is answered Expired.
C4_ExpiredStep ==
    /\ (Handles("resolve") /\ last'.status = 410)
          => (urls' = urls /\ clicks' = clicks /\ last'.code \in DOMAIN urls)
    /\ \A c \in DOMAIN urls :
          tally[c].gone =>
              /\ urls'[c] = urls[c]
              /\ clicks'[c] = clicks[c]
              /\ (Handles("resolve") /\ last'.code = c) => last'.status = 410

\* C4: a Resolve of an existing record fails with Expired exactly when the
\* clock it reads is strictly past the stored expiry; such a Resolve changes
\* neither registry nor ledger; and once one Resolve of a shortcode failed with
\* Expired, every later one does and the click counter stays as it is.
C4_ExpiryBlocksResolve == [](C4_ExpiredExactly) /\ [][C4_ExpiredStep]_vars

\* A record of which two Resolves in a row failed with Expired.
C4_Witness ==
    /\ last.op = "resolve" /\ last.status = 410
    /\ last.code \in DOMAIN urls
    /\ tally[last.code].gone
    /\ \E h \in BagToSet(pending) :
          h.op = "resolve" /\ h.code = last.code /\ CopiesIn(h, pending) >= 2

\* One step of C5: a Stats handled while its shortcode has a record decides
\* 200, and a resuming Stats handler writes the record as it then stands.
C5_StatsStep ==
    /\ (Handles("stats") /\ last'.code \in DOMAIN urls) => last'.status = 200
    /\ \A h \in Resumed :
          (h.op = "stats" /\ h.status = 200 /\ h.code \in DOMAIN urls) =>
              resp' = [op |-> "stats", code |-> h.code, status |-> 200,
                       body |-> [shortcode |-> h.code,
                                 originalUrl |-> urls[h.code].url,
                                 createdAt |-> toISOString(urls[h.code].createdAt),
                                 expiry |-> toISOString(urls[h.code].expiry),
                                 totalClicks |-> urls[h.code].clicks,
                                 clickDetails |-> clicks[h.code]]]

\* C5: a Stats of a shortcode that has a record is answered 200, also after
\* the expiry, and the response carries the record's URL, createdAt and expiry
\* with the click counter and the click list as they stand.
C5_StatsOfCreated == [][C5_StatsStep]_vars

\* A Stats response for an expired record that was clicked.
C5_Witness ==
    /\ resp.op = "stats" /\ resp.status = 200
    /\ resp.code \in DOMAIN urls
    /\ now > urls[resp.code].expiry
    /\ resp.body.totalClicks >= 1
    /\ Len(resp.body.clickDetails) >= 1

\* One step of C6: old ledgers stay or grow by the event of the Resolve handled
\* in this step; a new ledger is empty and comes with its record.
C6_LedgerStep ==
    /\ \A c \in DOMAIN clicks :
          /\ c \in DOMAIN clicks'
          /\ IsPrefix(clicks[c], clicks'[c])
          /\ clicks'[c] # clicks[c] =>
                /\ Handles("resolve") /\ last'.code = c /\ last'.status = 302
                /\ Len(clicks'[c]) = Len(clicks[c]) + 1
                /\ clicks'[c][Len(clicks'[c])].ip = last'.caller.ip
                /\ clicks'[c][Len(clicks'[c])].referrer =
                       (IF last'.caller.referrer = Undefined
                        THEN Null ELSE last'.caller.referrer)
    /\ \A c \in DOMAIN clicks' \ DOMAIN clicks :
          /\ clicks'[c] = << >>
          /\ Handles("create") /\ last'.status = 201 /\ last'.code = c
          /\ c \notin DOMAIN urls /\ c \in DOMAIN urls'

\* C6: a ledger appears, empty, in the step of the Create that inserts its
\* record; afterwards every step leaves it as it is or appends one event at
\* its end, the event of the Resolve handled in that step. (Stepwise, so for
\* any two states in order the earlier ledger is a prefix of the later one.)
C6_LedgerAppendOnly == [][C6_LedgerStep]_vars

\* A ledger of two events of different callers.
C6_Witness ==
    \E c \in DOMAIN clicks :
        /\ Len(clicks[c]) = 2
        /\ clicks[c][1].ip # clicks[c][2].ip

\* C7 (as claimed): a Resolve or a Stats of a shortcode that has no record is
\* answered NotFound (404).
C7_UnknownIsNotFound ==
    (last.op \in {"resolve", "stats"} /\ last.code \notin DOMAIN urls)
        => last.status = 404

\* One step of C8: the shortcode of a 201 is the last segment of the short
\* link the handler is about to return.
C8_CreateStep ==
    /\ \A h \in NewHandlers :
          (h.op = "create" /\ h.status = 201) =>
              LET c == LastSegment(h.body.shortLink) IN
              /\ MatchesPattern(c)
              /\ c \notin DOMAIN urls /\ c \notin DOMAIN clicks
              /\ DOMAIN urls' = DOMAIN urls \cup {c}
              /\ DOMAIN clicks' = DOMAIN clicks \cup {c}
              /\ \A k \in DOMAIN urls : urls'[k] = urls[k] /\ clicks'[k] = clicks[k]
    /\ DOMAIN urls' # DOMAIN urls =>
          \E h \in NewHandlers : h.op = "create" /\ h.status = 201

\* C8: a Create that answers 201 returns a shortcode that matches
\* ^[A-Za-z0-9]{4,}$ and keyed no record before the step; the step adds that
\* one key to registry and ledger and leaves every other record and ledger as
\* they were. No other step changes the set of keys.
C8_CreateAddsFreshKey == [][C8_CreateStep]_vars

\* Every candidate of the generator and a custom shortcode are keys.
C8_Witness ==
    /\ Candidates \subseteq DOMAIN urls
    /\ abcd \in DOMAIN urls

\* C9 (as claimed): a Create with a valid URL and a supplied shortcode that
\* does not match ^[A-Za-z0-9]{4,}$ is answered InvalidShortcode.
C9_BadShortcodeRejected ==
    (/\ last.op = "create"
     /\ last.url.t = "string" /\ isUri(last.url.s)
     /\ last.shortcode.t = "string"
     /\ ~MatchesPattern(last.shortcode.s))
        => (last.status = 400 /\ last.error = "InvalidShortcode")

\* C10 (as claimed): the record a Create inserts has expiry = createdAt plus
\* the validity in minutes (30 when none is supplied), hence expiry > createdAt.
C10_ExpiryIsCreatedPlusValidity ==
    (last.op = "create" /\ last.status = 201) =>
        /\ urls[last.code].expiry =
              urls[last.code].createdAt + MinutesOf(last.validity) * TicksPerMinute
        /\ urls[last.code].expiry > urls[last.code].createdAt

\* One step of C11: the handling of a Stats and the resumption of a Stats
\* handler change neither registry nor ledger; and a Stats answered 200 when
\* no Resolve of its shortcode was counted since the previous 200 of a Stats
\* of that shortcode repeats that answer's counter and click list.
C11_StatsStep ==
    /\ Handles("stats") => (urls' = urls /\ clicks' = clicks)
    /\ \A h \in Resumed :
          h.op = "stats" =>
              /\ urls' = urls /\ clicks' = clicks
              /\ (/\ h.status = 200 /\ h.code \in DOMAIN urls
                  /\ tally[h.code].shown # Null
                  /\ tally[h.code].seen = tally[h.code].hits)
                    => /\ resp'.op = "stats" /\ resp'.status = 200
                       /\ resp'.body.totalClicks = tally[h.code].shown.totalClicks
                       /\ resp'.body.clickDetails = tally[h.code].shown.clickDetails

C12_RecordStep ==
    \A c \in DOMAIN urls :
        /\ c \in DOMAIN urls'
        /\ urls'[c].url = urls[c].url
        /\ urls'[c].createdAt = urls[c].createdAt
        /\ urls'[c].expiry = urls[c].expiry
        /\ urls'[c].clicks >= urls[c].clicks

\* C12: once a record exists it exists in every later state, with the
\* originalUrl, createdAt and expiry of its creation; only its click counter
\* changes, and it never decreases.
C12_RecordsAreKept == [][C12_RecordStep]_vars

\* A record that was clicked and is past its expiry.
C12_Witness ==
    \E c \in DOMAIN urls : urls[c].clicks >= 1 /\ now > urls[c].expiry

\* One step of C13: a handler that resumes after its audit-log call changes
\* neither registry nor ledger and writes the response it writes when the
\* sink took the message and when the sink failed alike (none when building
\* the body throws); registry and ledger change only in the step that handles
\* a request, which ends with the handler suspended at its audit-log call.
C13_SinkStep ==
    /\ \A h \in Resumed :
          /\ urls' = urls /\ clicks' = clicks
          /\ IF h.op = "stats" /\ h.status = 200 /\ h.code \notin DOMAIN urls
             THEN resp' = resp
             ELSE resp' = Response(h, TRUE) /\ resp' = Response(h, FALSE)
    /\ (urls' # urls \/ clicks' # clicks) =>
          /\ nreq' = nreq + 1
          /\ \E h \in NewHandlers :
                h.op = last'.op /\ h.status = last'.status /\ h.status \in {201, 302}

\* C13: a failure of the audit-log sink never changes an operation: response,
\* registry and ledger are the same whether the sink call succeeds or fails,
\* and the mutation of a Create or a Resolve is complete when its handler
\* calls the sink.
C13_SinkFailureChangesNothing == [][C13_SinkStep]_vars

\* A counted Resolve was answered with its redirect while the handler of the
\* Create of another record is suspended at its audit-log call.
C13_Witness ==
    /\ resp.op = "resolve" /\ resp.status = 302
    /\ resp.code \in DOMAIN urls /\ urls[resp.code].clicks = 1
    /\ \E h \in BagToSet(pending) :
          h.op = "create" /\ h.status = 201 /\ h.code # resp.code

\* C14 (as claimed): the response does not wait for the sink: every handler
\* that has handled its request can write its response, also while the
\* audit-log service does not answer.
C14_ResponseDoesNotWait ==
    \A h \in BagToSet(pending) :
        ENABLED (LogSettles(h, TRUE) \/ LogSettles(h, FALSE))

\* The loop of generateShortcode is running and some candidate keys no record.
C15_FreeCodeLeft ==
    gen.pc \in {"draw", "test"} /\ \E c \in Candidates : ~HasEntry(urls, c)

\* One step of C15: every turn of the loop starts with a draw, a candidate
\* that keys a record is dropped for a new draw, and the loop returns only a
\* candidate that keys no record, one of generateShortcode(urls).
C15_LoopStep ==
    /\ (gen.pc = "test" /\ HasEntry(urls, gen.code)) => gen'.pc = "draw"
    /\ gen'.pc = "test" => gen.pc = "draw"
    /\ gen'.pc = "return" =>
          /\ gen'.code \notin DOMAIN urls
          /\ gen'.code \in generateShortcode(urls)

\* C15: generation terminates with a free code whenever some 6-character code
\* keys no record, under a fair draw: each attempt draws a candidate, one
\* that keys a record is rejected and redrawn, and only a candidate that keys
\* no record is returned.
C15_GenerationTerminates ==
    /\ [][C15_LoopStep]_vars
    /\ C15_FreeCodeLeft ~> (gen.pc = "return")

\* The loop is about to return a candidate after a record was created under
\* another one: one candidate is taken, the returned one is free.
C15_Witness ==
    /\ gen.pc = "return"
    /\ \E c \in Candidates : c \in DOMAIN urls /\ c # gen.code

\* One step of C16: a Create that is not answered 201 is answered one of the
\* four errors and changes neither registry nor ledger; and a Create with a
\* valid URL, no shortcode and a validity that is present but not a positive
\* integer is answered InvalidValidity.
C16_FailedCreateStep ==
    Handles("create") =>
        /\ last'.status # 201 =>
              /\ urls' = urls /\ clicks' = clicks
              /\ last'.error \in {"InvalidUrl", "InvalidShortcode",
                                   "ShortcodeConflict", "InvalidValidity"}
        /\ (/\ last'.url.t = "string" /\ isUri(last'.url.s)
            /\ last'.shortcode = Undefined
            /\ last'.validity # Undefined
            /\ ~(last'.validity.integer /\ last'.validity.n >= 1))
              => (last'.status = 400 /\ last'.error = "InvalidValidity")

\* C16: every Create that fails (InvalidUrl, InvalidShortcode,
\* ShortcodeConflict, InvalidValidity) leaves registry and ledger as they
\* were; in particular a Create without a custom shortcode whose validity is
\* present but not a positive integer fails with InvalidValidity and the
\* shortcode generated for it does not become a key.
C16_FailedCreateChangesNothing == [][C16_FailedCreateStep]_vars

\* A Create without shortcode was answered InvalidValidity when a record
\* existed and a candidate of the generator was free: the registry holds that
\* one record still.
C16_Witness ==
    /\ last.op = "create" /\ last.error = "InvalidValidity"
    /\ last.shortcode = Undefined
    /\ Cardinality(DOMAIN urls) = 1
    /\ \E c \in Candidates : c \notin DOMAIN urls

\* C17 (as claimed): a Create with a valid URL, a valid validity and a custom
\* shortcode that matches the pattern is answered 201, or ShortcodeConflict
\* when a Create inserted a record under that shortcode before; so it is
\* answered 201 for every such shortcode never created, 'constructor' too.
C17_ConflictOnlyAfterCreate ==
    (last.op = "create" /\ AsksCustom(last.url, last.validity, last.shortcode))
        => \/ last.status = 201 /\ last.code = last.shortcode.s
           \/ /\ last.status = 409
              /\ last.shortcode.s \in DOMAIN urls
              /\ tally[last.shortcode.s].asked >= 2

\* C18: every Stats response is consistent in itself: its totalClicks is the
\* number of entries of its clickDetails, also when Resolves of the shortcode
\* were handled while the Stats handler was suspended.
C18_StatsResponseConsistent ==
    (resp.op = "stats" /\ resp.status = 200)
        => resp.body.totalClicks = Len(resp.body.clickDetails)

\* Of three requests the last one handled was a counted Resolve, and the
\* Stats of the same shortcode, handled before it, was answered after it:
\* the answer counts the click.
C18_Witness ==
    /\ nreq = 3
    /\ last.op = "resolve" /\ last.status = 302
    /\ resp.op = "stats" /\ resp.status = 200 /\ resp.code = last.code
    /\ resp.body.totalClicks = 1
    /\ Len(resp.body.clickDetails) = 1

\* One step of C19: a Resolve answered with its redirect adds one to the
\* counter of its record and appends one event, with the caller's referrer
\* (null when absent) and address, to its ledger; the keys, the record's
\* other fields and every other record and ledger stay.
C19_ResolveStep ==
    (Handles("resolve") /\ last'.status = 302) =>
        LET c == last'.code IN
        /\ c \in DOMAIN urls
        /\ DOMAIN urls' = DOMAIN urls /\ DOMAIN clicks' = DOMAIN clicks
        /\ urls'[c] = [urls[c] EXCEPT !.clicks = urls[c].clicks + 1]
        /\ Len(clicks'[c]) = Len(clicks[c]) + 1
        /\ SubSeq(clicks'[c], 1, Len(clicks[c])) = clicks[c]
        /\ clicks'[c][Len(clicks'[c])].ip = last'.caller.ip
        /\ clicks'[c][Len(clicks'[c])].referrer =
               (IF last'.caller.referrer = Undefined
                THEN Null ELSE last'.caller.referrer)
        /\ \A k \in DOMAIN urls \ {c} :
               urls'[k] = urls[k] /\ clicks'[k] = clicks[k]

\* C19: a successful Resolve of c changes only c's click counter (+1) and
\* c's ledger (one event appended, carrying the caller's referrer, or null
\* when absent, and the caller's address); every other record and ledger and
\* the set of keys stay as they were.
C19_ResolveChangesOnlyItsRecord == [][C19_ResolveStep]_vars

\* Two records exist and the latest request was a counted Resolve of one of
\* them by a caller that sent a referrer.
C19_Witness ==
    /\ last.op = "resolve" /\ last.status = 302
    /\ last.caller.referrer # Undefined
    /\ Cardinality(DOMAIN urls) = 2
    /\ urls[last.code].clicks = 1

\* One step of C20: a step that submits a form with a valid URL and an empty
\* custom-shortcode field is a Create answered 201 with a shortcode that
\* keyed no record.
C20_SubmitStep ==
    \A form \in Forms :
        (/\ validateInputs(form)
         /\ form.customShortcode = << >>
         /\ handleShortenUrl(form))
            => /\ last'.op = "create"
               /\ last'.status = 201
               /\ last'.code \notin DOMAIN urls

\* C20 (as claimed): submitting the client form with a valid URL and an empty
\* custom-shortcode field has the server generate a shortcode; so every such
\* submission, however many there are, succeeds, each with a shortcode no
\* earlier one got.
C20_EmptyFieldAlwaysSucceeds == [][C20_SubmitStep]_vars

====
